---- MODULE Spec2Model ----
(***************************************************************************)
(* Model of kira's bounded value types (Panning, Mix), the tween engine    *)
(* (Easing, EaseDirection, Tween) and the panning-control effect.          *)
(*                                                                         *)
(* Floating-point numbers are modelled as pairs <<n, d>>:                  *)
(*   d > 0  : the finite value n/d in lowest terms,                        *)
(*   <<1,0>>, <<-1,0>> : +infinity, -infinity,   <<0,0>> : NaN.            *)
(* Arithmetic follows IEEE-754 on the special values and is exact on the   *)
(* finite ones (rounding and the sign of zero are not modelled; the finite *)
(* inputs used are dyadic and small, so f32/f64 compute them exactly       *)
(* except for division by 3, where the model keeps the exact quotient).    *)
(***************************************************************************)
EXTENDS Integers, Sequences, FiniteSets, TLC

\* ---------------------------------------------------------------- bounds
Den == 2            \* finite inputs are k/Den
MaxMag == 2         \* ... with |k/Den| <= MaxMag
MaxPower == 3       \* largest exponent of PowI / PowF
Capacity == 2       \* capacity of the command channel
MaxPushes == 3      \* commands the control context issues in a run
FramesPerBlock == 2 \* process calls between two block-start hooks

\* ------------------------------------------------------- float arithmetic
Abs(x) == IF x < 0 THEN -x ELSE x
Sgn(x) == IF x < 0 THEN -1 ELSE IF x > 0 THEN 1 ELSE 0

RECURSIVE GCD(_, _)
GCD(a, b) == IF b = 0 THEN a ELSE GCD(b, a % b)

Norm(n, d) ==
    IF d = 0 THEN <<Sgn(n), 0>>
    ELSE LET s == IF d < 0 THEN -1 ELSE 1
             g == GCD(Abs(n), Abs(d))
         IN  <<(s * n) \div g, (s * d) \div g>>

NaN == <<0, 0>>
INFINITY == <<1, 0>>
NEG_INFINITY == <<-1, 0>>
Zero == <<0, 1>>
One == <<1, 1>>
Half == <<1, 2>>

is_nan(x) == x = NaN
IsInf(x) == x[2] = 0 /\ x[1] # 0
IsFinite(x) == x[2] > 0

fneg(x) == <<-x[1], x[2]>>

fadd(x, y) ==
    IF is_nan(x) \/ is_nan(y) THEN NaN
    ELSE IF IsInf(x) THEN (IF IsInf(y) /\ y # x THEN NaN ELSE x)
    ELSE IF IsInf(y) THEN y
    ELSE Norm(x[1] * y[2] + y[1] * x[2], x[2] * y[2])

fsub(x, y) == fadd(x, fneg(y))

fmul(x, y) ==
    IF is_nan(x) \/ is_nan(y) THEN NaN
    ELSE Norm(x[1] * y[1], x[2] * y[2])

fdiv(x, y) ==
    IF is_nan(x) \/ is_nan(y) THEN NaN
    ELSE LET sy == IF y[1] < 0 THEN -1 ELSE 1
         IN  Norm(x[1] * y[2] * sy, x[2] * Abs(y[1]))

Trunc(n, m) == IF n >= 0 THEN n \div m ELSE -((-n) \div m)

frem(x, y) ==
    IF is_nan(x) \/ is_nan(y) \/ IsInf(x) \/ y = Zero THEN NaN
    ELSE IF IsInf(y) THEN x
    ELSE LET sy == IF y[1] < 0 THEN -1 ELSE 1
             q == Trunc(x[1] * y[2] * sy, x[2] * Abs(y[1]))
         IN  fsub(x, fmul(<<q, 1>>, y))

flt(x, y) ==
    /\ ~is_nan(x)
    /\ ~is_nan(y)
    /\ x # y
    /\ \/ x = NEG_INFINITY
       \/ y = INFINITY
       \/ IsFinite(x) /\ IsFinite(y) /\ x[1] * y[2] < y[1] * x[2]

fle(x, y) == ~is_nan(x) /\ ~is_nan(y) /\ (x = y \/ flt(x, y))

\* RangeInclusive::contains
contains(lo, hi, x) == fle(lo, x) /\ fle(x, hi)

\* f32::clamp
clamp(x, lo, hi) == IF flt(x, lo) THEN lo ELSE IF flt(hi, x) THEN hi ELSE x

\* impl Tweenable for f32: a + (b - a) * amount
f32_interpolate(a, b, amount) == fadd(a, fmul(fsub(b, a), amount))

\* ============================================================ panning.rs
Panning_LEFT == <<-1, 1>>
Panning_CENTER == <<0, 1>>
Panning_RIGHT == <<1, 1>>

Panning_default == Panning_CENTER

Panning_interpolate(a, b, amt) == f32_interpolate(a, b, amt)

bounded(value) ==
    IF flt(value, Panning_LEFT) THEN Panning_LEFT
    ELSE IF flt(Panning_RIGHT, value) THEN Panning_RIGHT
    ELSE value

\* Each saturating_* is [pre |-> its debug assertions, v |-> its result].
saturating_add(s, v) == [pre |-> ~is_nan(v), v |-> bounded(fadd(s, v))]
saturating_sub(s, v) == [pre |-> ~is_nan(v), v |-> bounded(fsub(s, v))]
saturating_mul(s, v) == [pre |-> ~is_nan(v), v |-> bounded(fmul(s, v))]
saturating_div(s, v) == [pre |-> ~is_nan(v) /\ v # Zero, v |-> bounded(fdiv(s, v))]
saturating_rem(s, v) == [pre |-> ~is_nan(v) /\ v # Zero, v |-> bounded(frem(s, v))]

Panning_add(s, r) == saturating_add(s, r)
Panning_sub(s, r) == saturating_sub(s, r)
Panning_mul(s, r) == saturating_mul(s, r)
Panning_div(s, r) == saturating_div(s, r)
Panning_neg(s) == [pre |-> TRUE, v |-> fneg(s)]
Panning_rem(s, r) == saturating_rem(s, r)

Panning_deserialize(value) ==
    IF contains(Panning_LEFT, Panning_RIGHT, value)
    THEN [ok |-> TRUE, value |-> value]
    ELSE [ok |-> FALSE, value |-> NaN]

\* ================================================================ mix.rs
Mix_DRY == <<0, 1>>
Mix_WET == <<1, 1>>

Mix_interpolate(a, b, amt) ==
    f32_interpolate(clamp(a, Mix_DRY, Mix_WET), clamp(b, Mix_DRY, Mix_WET), amt)

Mix_add(s, r) == [pre |-> TRUE, v |-> fadd(s, r)]
Mix_sub(s, r) == [pre |-> TRUE, v |-> fsub(s, r)]
Mix_mul(s, r) == [pre |-> TRUE, v |-> fmul(s, r)]
Mix_div(s, r) == [pre |-> TRUE, v |-> fdiv(s, r)]
Mix_neg(s) == [pre |-> TRUE, v |-> fneg(s)]
Mix_rem(s, r) == [pre |-> TRUE, v |-> frem(s, r)]

Mix_deserialize_clamping(value) ==
    [ok |-> ~is_nan(value), value |-> clamp(value, Mix_DRY, Mix_WET)]

Mix_deserialize(value) ==
    IF contains(Mix_DRY, Mix_WET, value)
    THEN [ok |-> TRUE, value |-> value]
    ELSE [ok |-> FALSE, value |-> NaN]

\* ============================================================== tween.rs
RECURSIVE powi(_, _)
\* f64::powi; f64::powf agrees with it on the integer-valued exponents used
powi(t, n) ==
    IF n = 0 THEN One
    ELSE IF n < 0 THEN fdiv(One, powi(t, -n))
    ELSE fmul(t, powi(t, n - 1))

Linear == [kind |-> "Linear", power |-> 1]
PowI(n) == [kind |-> "PowI", power |-> n]
PowF(n) == [kind |-> "PowF", power |-> n]

Easing_apply(e, t) ==
    CASE e.kind = "Linear" -> t
      [] e.kind = "PowI" -> powi(t, e.power)
      [] e.kind = "PowF" -> powi(t, e.power)

Easing_default == Linear
EaseDirection_default == "In"

Tween(duration, easing, direction) ==
    [duration |-> duration, easing |-> easing, direction |-> direction]

Two == <<2, 1>>

Tween_ease_discontinuous(tw, t) ==
    CASE tw.direction = "In" -> Easing_apply(tw.easing, t)
      [] tw.direction = "Out" -> fsub(One, Easing_apply(tw.easing, fsub(One, t)))
      [] tw.direction = "InOut" ->
            LET t2 == fmul(t, Two)
            IN  IF flt(t2, One)
                THEN fmul(Half, Easing_apply(tw.easing, t2))
                ELSE fmul(Half, fsub(One, Easing_apply(tw.easing, fsub(Two, t2))))

Tween_ease(tw, t) ==
    CASE tw.direction = "In" -> Easing_apply(tw.easing, t)
      [] tw.direction = "Out" -> fsub(One, Easing_apply(tw.easing, fsub(One, t)))
      [] tw.direction = "InOut" ->
            LET t2 == fmul(t, Two)
            IN  IF flt(t2, One)
                THEN fmul(Half, Easing_apply(tw.easing, t2))
                ELSE fadd(fmul(Half, fsub(One, Easing_apply(tw.easing, fsub(Two, t2)))), Half)

Tween_tween_from_target(tw, from, to, time) ==
    LET t == Tween_ease(tw, fdiv(time, tw.duration))
    IN  fadd(to, fmul(fsub(to, from), t))

Tween_tween(tw, from, to, time) ==
    LET t == Tween_ease(tw, fdiv(time, tw.duration))
    IN  fadd(from, fmul(fsub(to, from), t))

Tween_from(duration) == Tween(duration, Easing_default, EaseDirection_default)

\* ======================================= Value, Parameter, command channel
\* Value<T>: a fixed value, or a reference to another live parameter
Fixed(v) == [kind |-> "Fixed", value |-> v]
FromParameter == [kind |-> "FromParameter", value |-> NaN]

NoTween == Tween(One, Linear, "In")

Idle(v) ==
    [state |-> "Idle", value |-> v, from |-> v, target |-> v,
     tween |-> NoTween, elapsed |-> Zero]

\* Parameter::new(initial_value, default_raw_value)
Parameter_new(initial, default_raw_value) ==
    IF initial.kind = "Fixed" THEN Idle(initial.value) ELSE Idle(default_raw_value)

\* SetImmediate: assign the value, cancel any in-flight tween
Parameter_set_immediate(p, v) == Idle(v)

\* SetValue: begin a new tween from the current value, replacing any other
Parameter_set_value(p, target, tw) ==
    [state |-> "Tweening", value |-> p.value, from |-> p.value,
     target |-> target, tween |-> tw, elapsed |-> Zero]

Parameter_apply(p, cmd) ==
    IF cmd.type = "SetImmediate"
    THEN Parameter_set_immediate(p, cmd.value)
    ELSE Parameter_set_value(p, cmd.value, cmd.tween)

\* Parameter::update(dt, info)
Parameter_update(p, d) ==
    IF p.state = "Idle" THEN p
    ELSE LET e == fadd(p.elapsed, d)
         IN  IF fle(p.tween.duration, e)
             THEN Idle(p.target)
             ELSE [p EXCEPT !.elapsed = e,
                            !.value = Tween_tween(p.tween, p.from, p.target, e)]

Parameter_value(p) == p.value

RECURSIVE ApplyAll(_, _)
\* drain_into: apply the pending commands in FIFO order
ApplyAll(p, cmds) ==
    IF cmds = <<>> THEN p ELSE ApplyAll(Parameter_apply(p, Head(cmds)), Tail(cmds))

Min(a, b) == IF a < b THEN a ELSE b

\* Frame::panned: full left keeps the left channel and silences the right
Frame_panned(frame, v) ==
    <<fmul(frame[1], clamp(fsub(One, v), Zero, One)),
      fmul(frame[2], clamp(fadd(One, v), Zero, One))>>

\* ===================================================== panning_control.rs
PanningControl_default == Half

PanningControl_new(b) == Parameter_new(b, PanningControl_default)

\* ================================================================= state
VARIABLES
    debug_assertions,  \* cfg(debug_assertions): debug_assert! is compiled in
    lhs,               \* the value an operator is applied to / tween start
    rhs,               \* the operand / second endpoint / serialized number
    amount,            \* interpolation amount, easing position or time
    self,              \* the place a compound assignment writes
    op,                \* the operation applied last ("none" before any)
    res,               \* the value an operation returned
    ok,                \* deserialize returned Ok
    panicked,          \* a debug assertion failed
    tween,             \* the Tween whose ease / tween is evaluated
    builder,           \* PanningControlBuilder.0, the authored Value
    panning,           \* PanningControl.panning, the Parameter
    queue,             \* set_panning commands pushed and not yet drained
    overflow,          \* the last push reported the channel full
    nextId,            \* number of the next command issued
    dropped,           \* numbers of the commands dropped at a full channel
    applied,           \* numbers of the commands applied, in order
    sinceDrain,        \* commands issued since the last drain
    lastDrained,       \* the commands pending when the most recent hook ran
    wasTweening,       \* a tween was in flight when the most recent hook ran
    frame,             \* process calls since the most recent hook
    input,             \* input frame of the last process call
    out                \* output frame of the last process call

valueVars == <<debug_assertions, lhs, rhs, amount, self, op, res, ok, panicked, tween>>
effectVars == <<builder, panning, queue, overflow, nextId, dropped, applied,
                sinceDrain, lastDrained, wasTweening, frame, input, out>>
vars == <<valueVars, effectVars>>

Silence == <<Zero, Zero>>

\* The effect as constructed from builder value b.
EffectInit(b) ==
    /\ builder = b
    /\ panning = PanningControl_new(b)
    /\ queue = <<>>
    /\ overflow = FALSE
    /\ nextId = 1
    /\ dropped = {}
    /\ applied = <<>>
    /\ sinceDrain = 0
    /\ lastDrained = <<>>
    /\ wasTweening = FALSE
    /\ frame = 0
    /\ input = Silence
    /\ out = Silence

Finite == {Norm(k, Den) : k \in (-(MaxMag * Den))..(MaxMag * Den)}
Floats == Finite \cup {NaN, INFINITY, NEG_INFINITY}
Amounts == {Norm(k, 2 * Den) : k \in 0..(2 * Den)}

ValueInit ==
    /\ debug_assertions \in BOOLEAN
    /\ lhs \in Floats
    /\ rhs \in Floats
    /\ amount \in Amounts
    /\ self = lhs
    /\ op = "none"
    /\ res = NaN
    /\ ok = TRUE
    /\ panicked = FALSE
    /\ tween = NoTween
    /\ EffectInit(Fixed(Panning_CENTER))

\* A by-value operator: a failed debug assertion panics, otherwise the
\* result is returned.
Returns(name, r) ==
    /\ op = "none"
    /\ op' = name
    /\ IF debug_assertions /\ ~r.pre
       THEN panicked' = TRUE /\ res' = res
       ELSE panicked' = FALSE /\ res' = r.v
    /\ UNCHANGED <<debug_assertions, lhs, rhs, amount, self, ok, tween, effectVars>>

\* A compound assignment: *self = self.op(rhs)
Assigns(name, r) ==
    /\ op = "none"
    /\ op' = name
    /\ IF debug_assertions /\ ~r.pre
       THEN panicked' = TRUE /\ self' = self
       ELSE panicked' = FALSE /\ self' = r.v
    /\ UNCHANGED <<debug_assertions, lhs, rhs, amount, res, ok, tween, effectVars>>

Deserializes(name, r) ==
    /\ op = "none"
    /\ op' = name
    /\ ok' = r.ok
    /\ res' = r.value
    /\ UNCHANGED <<debug_assertions, lhs, rhs, amount, self, panicked, tween, effectVars>>

PanningAdd == Returns("Panning.add", Panning_add(lhs, rhs))
PanningAddAssign == Assigns("Panning.add_assign", Panning_add(self, rhs))
PanningSub == Returns("Panning.sub", Panning_sub(lhs, rhs))
PanningSubAssign == Assigns("Panning.sub_assign", Panning_sub(self, rhs))
PanningMul == Returns("Panning.mul", Panning_mul(lhs, rhs))
PanningMulAssign == Assigns("Panning.mul_assign", Panning_mul(self, rhs))
PanningDiv == Returns("Panning.div", Panning_div(lhs, rhs))
PanningDivAssign == Assigns("Panning.div_assign", Panning_div(self, rhs))
PanningNeg == Returns("Panning.neg", Panning_neg(lhs))
PanningRem == Returns("Panning.rem", Panning_rem(lhs, rhs))
PanningRemAssign == Assigns("Panning.rem_assign", Panning_rem(self, rhs))
PanningInterpolate ==
    Returns("Panning.interpolate", [pre |-> TRUE, v |-> Panning_interpolate(lhs, rhs, amount)])
PanningDeserialize == Deserializes("Panning.deserialize", Panning_deserialize(rhs))

MixAdd == Returns("Mix.add", Mix_add(lhs, rhs))
MixAddAssign == Assigns("Mix.add_assign", Mix_add(self, rhs))
MixSub == Returns("Mix.sub", Mix_sub(lhs, rhs))
MixSubAssign == Assigns("Mix.sub_assign", Mix_sub(self, rhs))
MixMul == Returns("Mix.mul", Mix_mul(lhs, rhs))
MixMulAssign == Assigns("Mix.mul_assign", Mix_mul(self, rhs))
MixDiv == Returns("Mix.div", Mix_div(lhs, rhs))
MixDivAssign == Assigns("Mix.div_assign", Mix_div(self, rhs))
MixNeg == Returns("Mix.neg", Mix_neg(lhs))
MixRem == Returns("Mix.rem", Mix_rem(lhs, rhs))
MixRemAssign == Assigns("Mix.rem_assign", Mix_rem(self, rhs))
MixInterpolate ==
    Returns("Mix.interpolate", [pre |-> TRUE, v |-> Mix_interpolate(lhs, rhs, amount)])
MixDeserialize == Deserializes("Mix.deserialize", Mix_deserialize(rhs))

ValueNext ==
    \/ PanningAdd \/ PanningAddAssign \/ PanningSub \/ PanningSubAssign
    \/ PanningMul \/ PanningMulAssign \/ PanningDiv \/ PanningDivAssign
    \/ PanningNeg \/ PanningRem \/ PanningRemAssign
    \/ PanningInterpolate \/ PanningDeserialize
    \/ MixAdd \/ MixAddAssign \/ MixSub \/ MixSubAssign
    \/ MixMul \/ MixMulAssign \/ MixDiv \/ MixDivAssign
    \/ MixNeg \/ MixRem \/ MixRemAssign
    \/ MixInterpolate \/ MixDeserialize

SpecValue == ValueInit /\ [][ValueNext]_vars

\* ------------------------------------------------ properties of the values
\* x lies in the closed interval [lo, hi] (lo, hi finite): stated on the
\* numerators and denominators, independently of the comparison operators.
InInterval(x, lo, hi) ==
    /\ IsFinite(x)
    /\ lo[1] * x[2] <= x[1] * lo[2]
    /\ x[1] * hi[2] <= hi[1] * x[2]

\* The value an operation produced: the place written by a compound
\* assignment, the returned value otherwise.
Observed ==
    IF op \in {"Panning.add_assign", "Panning.sub_assign", "Panning.mul_assign",
               "Panning.div_assign", "Panning.rem_assign",
               "Mix.add_assign", "Mix.sub_assign", "Mix.mul_assign",
               "Mix.div_assign", "Mix.rem_assign"}
    THEN self ELSE res

\* The arithmetic result of the operator named o on lhs and rhs.
Arith(o) ==
    CASE o \in {"add", "add_assign"} -> fadd(lhs, rhs)
      [] o \in {"sub", "sub_assign"} -> fsub(lhs, rhs)
      [] o \in {"mul", "mul_assign"} -> fmul(lhs, rhs)
      [] o \in {"div", "div_assign"} -> fdiv(lhs, rhs)
      [] o \in {"rem", "rem_assign"} -> frem(lhs, rhs)
      [] o = "neg" -> fneg(lhs)

\* The operand an operator admits: an in-range value of the type for + and -,
\* any non-NaN number for *, / and %, not zero for / and %.
OperandOk(o, lo, hi) ==
    CASE o \in {"add", "add_assign", "sub", "sub_assign"} -> InInterval(rhs, lo, hi)
      [] o \in {"mul", "mul_assign"} -> ~is_nan(rhs)
      [] o \in {"div", "div_assign", "rem", "rem_assign"} -> ~is_nan(rhs) /\ rhs # Zero
      [] o = "neg" -> TRUE

ArithOps == {"add", "add_assign", "sub", "sub_assign", "mul", "mul_assign",
             "div", "div_assign", "rem", "rem_assign", "neg"}

\* The result r is e saturated into [lo, hi].
IsSaturated(r, e, lo, hi) ==
    /\ InInterval(r, lo, hi)
    /\ InInterval(e, lo, hi) => r = e
    /\ flt(e, lo) => r = lo
    /\ flt(hi, e) => r = hi

Closes(ty, lo, hi) ==
    \A o \in ArithOps :
        (op = ty \o "." \o o /\ InInterval(lhs, lo, hi) /\ OperandOk(o, lo, hi))
            => ~panicked /\ IsSaturated(Observed, Arith(o), lo, hi)

\* C1: every arithmetic operator and compound assignment on an in-range
\* Panning with an admissible operand yields a Panning in [-1, 1]: the exact
\* result when it lies in the interval, LEFT below it, RIGHT above it.
C1_PanningOperatorsSaturate == Closes("Panning", Panning_LEFT, Panning_RIGHT)

\* C2: every arithmetic operator and compound assignment on an in-range Mix
\* with an admissible operand yields a Mix in [0, 1], the arithmetic result
\* clamped into the interval.
C2_MixOperatorsSaturate == Closes("Mix", Mix_DRY, Mix_WET)

DeserializeChecks(name, lo, hi) ==
    op = name =>
        /\ ok <=> InInterval(rhs, lo, hi)
        /\ ok => res = rhs
        /\ ~ok => ~InInterval(res, lo, hi)

\* C3: deserializing a number succeeds, yielding exactly that number, iff it
\* lies in the type's closed interval; every other number (below, above, NaN,
\* infinite) is an error and yields no in-range value.
C3_DeserializeRejectsOutOfRange ==
    /\ DeserializeChecks("Mix.deserialize", Mix_DRY, Mix_WET)
    /\ DeserializeChecks("Panning.deserialize", Panning_LEFT, Panning_RIGHT)

C3_Witness ==
    /\ op = "Mix.deserialize"
    /\ IsFinite(rhs)
    /\ flt(Mix_WET, rhs)
    /\ ~ok

InterpolateClamps(name, lo, hi) ==
    (op = name /\ ~is_nan(lhs) /\ ~is_nan(rhs)) =>
        /\ amount = Zero => res = clamp(lhs, lo, hi)
        /\ amount = One => res = clamp(rhs, lo, hi)
        /\ InInterval(amount, Zero, One) => InInterval(res, lo, hi)

\* C4: for Mix and for Panning, interpolate(a, b, t) clamps both endpoints
\* into the type's interval before blending: it is clamp(a) at t = 0, clamp(b)
\* at t = 1, and in the interval for every t in [0, 1], whatever a and b.
C4_InterpolateClampsEndpoints ==
    /\ InterpolateClamps("Mix.interpolate", Mix_DRY, Mix_WET)
    /\ InterpolateClamps("Panning.interpolate", Panning_LEFT, Panning_RIGHT)

\* ========================================================= the tween engine
Powers == (-1)..MaxPower
Easings == {Linear} \cup {PowI(n) : n \in Powers} \cup {PowF(n) : n \in Powers}
Directions == {"In", "Out", "InOut"}
Durations == {Half, One, Two}
Tweens == {Tween(d, e, dir) : d \in Durations, e \in Easings, dir \in Directions}
Positions == {Panning_LEFT, Panning_CENTER, Panning_RIGHT}

EaseInit ==
    /\ debug_assertions = FALSE
    /\ lhs \in Positions
    /\ rhs \in Positions
    /\ amount \in Amounts
    /\ self = lhs
    /\ op = "none"
    /\ res = NaN
    /\ ok = TRUE
    /\ panicked = FALSE
    /\ tween \in Tweens
    /\ EffectInit(Fixed(Panning_CENTER))

Ease == Returns("Tween.ease", [pre |-> TRUE, v |-> Tween_ease(tween, amount)])

TweenValue ==
    Returns("Tween.tween", [pre |-> TRUE, v |-> Tween_tween(tween, lhs, rhs, amount)])

EaseNext == Ease \/ TweenValue

SpecEase == EaseInit /\ [][EaseNext]_vars

\* ================================================ the panning-control effect
TweenSpecs == {Tween_from(One), Tween(Half, PowI(2), "InOut")}
Dts == {<<1, 4>>, Half}
Frames == {<<One, One>>, <<One, fneg(Half)>>}
BuilderValues == {Fixed(Panning_CENTER), Fixed(Panning_LEFT), FromParameter}

SetImmediate(v, id) == [type |-> "SetImmediate", value |-> v, tween |-> NoTween, id |-> id]
SetValue(target, tw, id) == [type |-> "SetValue", value |-> target, tween |-> tw, id |-> id]

Init ==
    /\ debug_assertions = FALSE
    /\ lhs = Zero
    /\ rhs = Zero
    /\ amount = Zero
    /\ self = Zero
    /\ op = "none"
    /\ res = NaN
    /\ ok = TRUE
    /\ panicked = FALSE
    /\ tween = NoTween
    /\ \E b \in BuilderValues : EffectInit(b)

\* CommandWriter::push: never blocks; a command that finds the channel full
\* is dropped and the overflow is reported to the producer.
push(cmd) ==
    /\ nextId <= MaxPushes
    /\ op' = "push"
    /\ nextId' = nextId + 1
    /\ sinceDrain' = sinceDrain + 1
    /\ IF Len(queue) < Capacity
       THEN /\ queue' = Append(queue, cmd)
            /\ overflow' = FALSE
            /\ dropped' = dropped
       ELSE /\ queue' = queue
            /\ overflow' = TRUE
            /\ dropped' = dropped \cup {cmd.id}
    /\ UNCHANGED <<debug_assertions, lhs, rhs, amount, self, res, ok, panicked, tween>>
    /\ UNCHANGED <<builder, panning, applied, lastDrained, wasTweening, frame, input, out>>

set_immediate == \E v \in {Panning_LEFT, Panning_CENTER} : push(SetImmediate(v, nextId))

set_tweened ==
    \E target \in {Panning_LEFT, Panning_RIGHT}, tw \in TweenSpecs :
        push(SetValue(target, tw, nextId))

\* read_commands_into_parameters!: the commands cmds are applied to the
\* parameter in order and rest stays in the channel.
Drain(cmds, rest) ==
    /\ op' = "on_start_processing"
    /\ panning' = ApplyAll(panning, cmds)
    /\ queue' = rest
    /\ applied' = applied \o [i \in 1..Len(cmds) |-> cmds[i].id]
    /\ sinceDrain' = 0
    /\ lastDrained' = queue
    /\ wasTweening' = (panning.state = "Tweening" /\ panning.elapsed # Zero)
    /\ frame' = 0
    /\ UNCHANGED <<debug_assertions, lhs, rhs, amount, self, res, ok, panicked, tween>>
    /\ UNCHANGED <<builder, overflow, nextId, dropped, input, out>>

on_start_processing_first_only ==
    IF queue = <<>> THEN Drain(<<>>, <<>>) ELSE Drain(<<Head(queue)>>, Tail(queue))

on_start_processing_keeps_queue == Drain(queue, queue)

on_start_processing == Drain(queue, <<>>)

\* One process call: the parameter after the call is after, the value the
\* frame is panned by is read from seen.
Processes(f, d, after, seen) ==
    /\ frame < FramesPerBlock
    /\ op' = "process"
    /\ panning' = after
    /\ out' = Frame_panned(f, Parameter_value(seen))
    /\ input' = f
    /\ frame' = frame + 1
    /\ UNCHANGED <<debug_assertions, lhs, rhs, amount, self, res, ok, panicked, tween>>
    /\ UNCHANGED <<builder, queue, overflow, nextId, dropped, applied, sinceDrain,
                   lastDrained, wasTweening>>

process_reads_before_update ==
    \E f \in Frames, d \in Dts : Processes(f, d, Parameter_update(panning, d), panning)

process ==
    \E f \in Frames, d \in Dts :
        Processes(f, d, Parameter_update(panning, d), Parameter_update(panning, d))

Next == set_immediate \/ set_tweened \/ on_start_processing \/ process

Spec == Init /\ [][Next]_vars

\* ------------------------------------------- properties of the tween engine
\* C10: under InOut, for an easing curve with apply(0) = 0 and apply(1) = 1
\* and t in [0, 1]: ease(t) + ease(1 - t) = 1, ease(1/2) = 1/2, and the
\* first-half branch 0.5 * apply(2t) reaches at t = 1/2 the value 1/2 the
\* second-half branch has there.
C10_InOutSymmetricContinuous ==
    (/\ op = "Tween.ease"
     /\ tween.direction = "InOut"
     /\ Easing_apply(tween.easing, Zero) = Zero
     /\ Easing_apply(tween.easing, One) = One)
    => /\ fadd(res, Tween_ease(tween, fsub(One, amount))) = One
       /\ amount = Half => res = Half
       /\ fmul(Half, Easing_apply(tween.easing, One)) = Half
       /\ Tween_ease(tween, Half) = Half

C10_Witness ==
    /\ op = "Tween.ease"
    /\ tween.direction = "InOut"
    /\ tween.easing = PowI(2)
    /\ amount = <<1, 4>>
    /\ res = <<1, 8>>

\* ------------------------------------------------ properties of the effect
LinearIn(tw) == tw.easing = Linear /\ tw.direction = "In"

\* While a Linear/In tween is in flight: elapsed < D and the value is
\* s + (target - s) * elapsed / D, the midpoint at elapsed = D/2.
C5_InFlight ==
    (panning.state = "Tweening" /\ LinearIn(panning.tween)) =>
        /\ flt(panning.elapsed, panning.tween.duration)
        /\ panning.value =
              fadd(panning.from,
                   fdiv(fmul(fsub(panning.target, panning.from), panning.elapsed),
                        panning.tween.duration))
        /\ panning.elapsed = fmul(Half, panning.tween.duration) =>
              panning.value = fmul(Half, fadd(panning.from, panning.target))

\* An update of a Linear/In tween adds dt to elapsed; the first update with
\* elapsed >= D leaves the parameter Idle at exactly target; an update of an
\* Idle parameter changes nothing.
C5_Update ==
    op' = "process" =>
        /\ (panning.state = "Tweening" /\ LinearIn(panning.tween)) =>
              \E d \in Dts :
                  IF fle(panning.tween.duration, fadd(panning.elapsed, d))
                  THEN panning' = Idle(panning.target)
                  ELSE /\ panning'.state = "Tweening"
                       /\ panning'.elapsed = fadd(panning.elapsed, d)
                       /\ panning'.from = panning.from
                       /\ panning'.target = panning.target
        /\ panning.state = "Idle" => panning' = panning

\* C5: a parameter tweening (Linear, In) from s toward target over D > 0 and
\* advanced by update(dt) has value s + (target - s) * elapsed / D while
\* elapsed < D, is exactly target and Idle at the first update with
\* elapsed >= D, and keeps that value under every later update.
C5_LinearTweenReachesTarget == []C5_InFlight /\ [][C5_Update]_vars

C5_Witness ==
    /\ panning.state = "Tweening"
    /\ LinearIn(panning.tween)
    /\ panning.from # panning.target
    /\ panning.elapsed = fmul(Half, panning.tween.duration)
    /\ panning.value = fmul(Half, fadd(panning.from, panning.target))

Last(q) == q[Len(q)]

\* C6: after a drain the parameter is in the state the last pending command
\* produces: SetImmediate(v) leaves it Idle at v (and it stays so until the
\* next drain, whatever set_tweened preceded it in the same drain); SetValue
\* leaves it Tweening toward the new target with the new curve and elapsed 0,
\* whatever tween was in flight.
C6_LastCommandWins ==
    lastDrained # <<>> =>
        /\ Last(lastDrained).type = "SetImmediate" =>
              panning = Idle(Last(lastDrained).value)
        /\ (Last(lastDrained).type = "SetValue" /\ frame = 0) =>
              /\ panning.state = "Tweening"
              /\ panning.elapsed = Zero
              /\ panning.target = Last(lastDrained).value
              /\ panning.tween = Last(lastDrained).tween
              /\ panning.value = panning.from

C6_Witness ==
    /\ Len(lastDrained) = 2
    /\ lastDrained[1].type = "SetValue"
    /\ lastDrained[2].type = "SetImmediate"
    /\ frame > 0
    /\ wasTweening
    /\ panning = Idle(lastDrained[2].value)

\* The numbers of the commands the channel accepted, in push order.
Accepted == SelectSeq([i \in 1..(nextId - 1) |-> i], LAMBDA i : i \notin dropped)

QueueIds == [i \in 1..Len(queue) |-> queue[i].id]

\* C7: the commands applied so far followed by those still pending are
\* exactly the accepted commands, each once, in push order; a drain leaves
\* nothing pending; of the commands pushed since the last drain the first
\* Capacity are pending and every later one was dropped, the producer being
\* told so; the consumer never fails.
C7_ChannelFifoDropsNewest ==
    /\ applied \o QueueIds = Accepted
    /\ op = "on_start_processing" => queue = <<>>
    /\ QueueIds = [i \in 1..Min(sinceDrain, Capacity) |-> nextId - sinceDrain + i - 1]
    /\ \A i \in (nextId - sinceDrain)..(nextId - 1) :
          i \in dropped <=> i >= nextId - sinceDrain + Capacity
    /\ op = "push" => (overflow <=> (nextId - 1) \in dropped)
    /\ ~panicked

C7_Witness ==
    /\ op = "on_start_processing"
    /\ dropped = {Capacity + 1}
    /\ applied = [i \in 1..Capacity |-> i]

\* A push leaves the parameter and the output alone.
C8_Push == op' = "push" => (panning' = panning /\ out' = out)

\* A process call advances the parameter by dt once and pans the input by
\* the value the parameter has after that.
C8_Process ==
    op' = "process" =>
        \E d \in Dts :
            /\ panning' = Parameter_update(panning, d)
            /\ out' = Frame_panned(input', panning'.value)

\* The first process call after a hook that drained set_immediate(v) last
\* outputs the input panned by v; for v = LEFT the right channel is zero and
\* the left channel is the input's.
C8_FirstFrame ==
    (op = "process" /\ frame = 1 /\ lastDrained # <<>>
        /\ Last(lastDrained).type = "SetImmediate") =>
        /\ out = Frame_panned(input, Last(lastDrained).value)
        /\ Last(lastDrained).value = Panning_LEFT => out = <<input[1], Zero>>

\* C8: a set_immediate(v) issued before a block is not observed before the
\* block's on_start_processing hook and is observed by the first process
\* call after it, whose output is the input panned by v; process advances
\* the parameter by dt once, before reading its value.
C8_CommandObservedAfterHook ==
    []C8_FirstFrame /\ [][C8_Push /\ C8_Process]_vars

C8_Witness ==
    /\ builder = Fixed(Panning_CENTER)
    /\ op = "process"
    /\ frame = 1
    /\ lastDrained = <<SetImmediate(Panning_LEFT, 1)>>
    /\ input[2] # Zero
    /\ out = <<input[1], Zero>>

\* C9: the fallback value the effect gives its panning parameter at
\* construction is Panning::CENTER = 0.0, the centre of [-1.0, 1.0].
C9_DefaultCentered ==
    (op = "none" /\ builder.kind = "FromParameter") =>
        /\ panning = Idle(Panning_CENTER)
        /\ InInterval(panning.value, Panning_LEFT, Panning_RIGHT)

====
